---- MODULE Spec2Model ----
(***************************************************************************)
(* Model of dashboard.py: a Streamlit page that loads a Google Sheets      *)
(* table through a memoized load_data(), refreshes it on a button or on a  *)
(* 30-second check, and filters it by date and keyword.                    *)
(*                                                                         *)
(* A render pass (one execution of the script for one session) is one      *)
(* action.  The program reads the clock only in the differences            *)
(* time.time() - last_update and (entry age) against ttl, so the model     *)
(* keeps those differences, in seconds, each saturated one above the       *)
(* largest threshold it is compared with.                                  *)
(***************************************************************************)
EXTENDS Integers, Sequences, FiniteSets

VARIABLES
    cache,          \* st.cache_data store of load_data(): one entry or none
    client,         \* st.cache_resource store of init_connection(): created?
    elapsed,        \* per session: now - st.session_state.last_update, or Unset
    auto_refresh,   \* per session: state of the auto-refresh checkbox
    rerun,          \* per session: st.rerun() was called and the pass it asks for has not run yet
    last,           \* what the most recent render pass did (observation only)
    stage,          \* position in the load-then-filter part of one pass (ViewSpec)
    sheet,          \* the remote spreadsheet read by that pass
    selected_date,  \* st.date_input value
    keyword,        \* st.text_input value
    df,             \* load_data() result of that pass
    filtered_df,    \* df[df.date >= selected_date]
    keyword_df      \* filtered_df[summary.str.contains(keyword, case=False, na=False)]

refreshVars == <<cache, client, elapsed, auto_refresh, rerun, last>>
viewVars    == <<stage, sheet, selected_date, keyword, df, filtered_df, keyword_df>>
vars        == <<cache, client, elapsed, auto_refresh, rerun, last,
                 stage, sheet, selected_date, keyword, df, filtered_df, keyword_df>>

----------------------------------------------------------------------------
(* Program constants *)

TTL          == 60    \* @st.cache_data(ttl=60)
AutoInterval == 30    \* current_time - last_update > 30
SleepSecs    == 1     \* time.sleep(1)
NaT          == 0     \* pandas' missing timestamp; real days are 1..MaxDay

(* Bounds of the model *)

MaxRows == 2          \* rows of a sheet
MaxDay  == 2          \* distinct calendar days

Sessions == {1, 2}    \* browser sessions served by the one Streamlit process
Single   == {1}
Unset    == -1        \* 'last_update' not in st.session_state

Min(a, b) == IF a < b THEN a ELSE b

----------------------------------------------------------------------------
(* The remote spreadsheet and load_data()'s body (lines 31-55) *)

\* Text of the date cells that pd.to_datetime parses, by day number.
DayTexts == <<"2025-06-30", "2025-07-01", "2025-07-02", "2025-07-03">>
Days     == 1..MaxDay
\* A date cell as get_all_records() returns it: a date text, the empty
\* string of a blank cell, or some other text.
RawCells == {DayTexts[n] : n \in Days} \cup {"", "n/a"}

\* Summary and keyword texts are sequences of characters.
Summaries == {<<>>, <<"a">>, <<"A", "b">>}
Keywords  == {<<>>, <<"a">>, <<"B">>, <<".">>}

RawRows == [date : RawCells, summary : Summaries]
TablesOf(rows) == UNION {[1..n -> rows] : n \in 0..MaxRows}

\* status: "ok" the spreadsheet opens, "notfound" client.open raises
\* SpreadsheetNotFound, "error" it raises any other exception.
Sheets ==
    [status : {"ok"}, hasDate : BOOLEAN, rows : TablesOf(RawRows)]
    \cup [status : {"notfound", "error"}, hasDate : {FALSE}, rows : {<<>>}]

MsgEmpty    == "no data in Google Sheets"
MsgNoDate   == "no date column in Google Sheets"
MsgBadDate  == "date format is not valid"
MsgSuccess  == "data load success"
MsgNotFound == "sheet not found"
MsgError    == "an error occurred"

\* pd.to_datetime on one cell: a date text becomes its day, the empty
\* string becomes NaT without an error, any other text raises.
ToDatetimeRaises(c) == c # "" /\ \A n \in Days : DayTexts[n] # c
to_datetime(c) ==
    IF c = "" THEN NaT ELSE CHOOSE n \in Days : DayTexts[n] = c

\* The value load_data() returns: (df, message), df None on a failure.
Result(isNone, table, msg) == [isNone |-> isNone, df |-> table, msg |-> msg]

fetch_records(sh) ==
    IF sh.rows = <<>>
      THEN Result(TRUE, <<>>, MsgEmpty)
    ELSE IF ~sh.hasDate
      THEN Result(TRUE, <<>>, MsgNoDate)
    ELSE IF \E i \in 1..Len(sh.rows) : ToDatetimeRaises(sh.rows[i].date)
      THEN Result(TRUE, <<>>, MsgBadDate)
    ELSE Result(FALSE,
                [i \in 1..Len(sh.rows) |->
                    [date |-> to_datetime(sh.rows[i].date),
                     summary |-> sh.rows[i].summary]],
                MsgSuccess)

load_body(sh) ==
    CASE sh.status = "notfound" -> Result(TRUE, <<>>, MsgNotFound)
      [] sh.status = "error"    -> Result(TRUE, <<>>, MsgError)
      [] OTHER                  -> fetch_records(sh)

----------------------------------------------------------------------------
(* The view filters (lines 104-107 and 130-138) *)

RECURSIVE SelectSeq2(_, _)
\* Rows of t for which keep[i] holds, in t's order (boolean-mask indexing).
SelectSeq2(t, keep) ==
    IF t = <<>> THEN <<>>
    ELSE LET rest == SelectSeq2(Tail(t), Tail(keep))
         IN  IF Head(keep) THEN <<Head(t)>> \o rest ELSE rest

\* Timestamp >= Timestamp; any comparison with NaT is False.
DateGe(d, sel) == d # NaT /\ d >= sel

date_filter(t, sel) ==
    SelectSeq2(t, [i \in 1..Len(t) |-> DateGe(t[i].date, sel)])

Lower(c) == IF c = "A" THEN "a" ELSE IF c = "B" THEN "b" ELSE c

\* One pattern character against one text character under re.IGNORECASE:
\* str.contains defaults to regex=True, so "." matches any character.
CharMatch(p, c) == p = "." \/ Lower(p) = Lower(c)

\* re.search(pattern, text, re.IGNORECASE) for a pattern of plain characters
\* and dots.
str_contains(text, pat) ==
    \E i \in 0..(Len(text) - Len(pat)) :
        \A j \in 1..Len(pat) : CharMatch(pat[j], text[i + j])

keyword_filter(t, pat) ==
    SelectSeq2(t, [i \in 1..Len(t) |-> str_contains(t[i].summary, pat)])

----------------------------------------------------------------------------
(* The clock *)

ElapsedCap == AutoInterval + 1
AgeCap     == TTL + 1

NoValue == Result(TRUE, <<>>, "")
NoEntry == [full |-> FALSE, val |-> NoValue, age |-> 0]

\* d seconds pass: every time difference the program can read grows by d.
Elapse(p, d) ==
    [p EXCEPT
        !.elapsed = [s \in Sessions |->
                        IF @[s] = Unset THEN Unset ELSE Min(@[s] + d, ElapsedCap)],
        !.cache   = IF @.full THEN [@ EXCEPT !.age = Min(@ + d, AgeCap)] ELSE @]

----------------------------------------------------------------------------
(* One render pass, statement by statement.  p is the state the pass works *)
(* on: the process-wide caches, every session's last_update, and what the  *)
(* pass has done so far.                                                   *)

\* The spreadsheets a fetch of the refresh model may find.
RemoteSheets ==
    { [status |-> "ok", hasDate |-> TRUE,
       rows |-> <<[date |-> DayTexts[1], summary |-> <<"a">>]>>],
      [status |-> "ok", hasDate |-> TRUE, rows |-> <<>>],
      [status |-> "notfound", hasDate |-> FALSE, rows |-> <<>>] }

Begin ==
    [cache |-> cache, client |-> client, elapsed |-> elapsed,
     rerun |-> FALSE, fired |-> {}, called |-> FALSE, fetched |-> FALSE,
     raised |-> FALSE, val |-> NoValue]

\* lines 71-72
init_last_update(p, s) ==
    IF p.elapsed[s] = Unset THEN [p EXCEPT !.elapsed[s] = 0] ELSE p

\* st.cache_data.clear()
cache_clear(c) == NoEntry

\* manual_refresh without the st.rerun() that ends the pass.
manual_refresh_no_rerun(p, s, refresh_btn) ==
    IF refresh_btn
      THEN Elapse([p EXCEPT !.cache = cache_clear(@),
                            !.elapsed[s] = 0,
                            !.fired = @ \cup {"manual"}],
                  SleepSecs)
      ELSE p

\* lines 78-83
manual_refresh(p, s, refresh_btn) ==
    IF refresh_btn
      THEN [Elapse([p EXCEPT !.cache = cache_clear(@),
                             !.elapsed[s] = 0,
                             !.fired = @ \cup {"manual"}],
                   SleepSecs)
            EXCEPT !.rerun = TRUE]
      ELSE p

\* auto_refresh_check without the test of the checkbox.
auto_refresh_unchecked(p, s, auto) ==
    IF p.elapsed[s] > AutoInterval
      THEN [p EXCEPT !.cache = cache_clear(@),
                     !.elapsed[s] = 0,
                     !.fired = @ \cup {"auto"},
                     !.rerun = TRUE]
      ELSE p

\* auto_refresh_check without st.cache_data.clear(): the 30-second check
\* left to rely on the ttl alone.
auto_refresh_keeps_cache(p, s, auto) ==
    IF auto /\ p.elapsed[s] > AutoInterval
      THEN [p EXCEPT !.elapsed[s] = 0,
                     !.fired = @ \cup {"auto"},
                     !.rerun = TRUE]
      ELSE p

\* lines 86-92
auto_refresh_check(p, s, auto) ==
    IF auto /\ p.elapsed[s] > AutoInterval
      THEN [p EXCEPT !.cache = cache_clear(@),
                     !.elapsed[s] = 0,
                     !.fired = @ \cup {"auto"},
                     !.rerun = TRUE]
      ELSE p

\* cache_hit without the ttl.
cache_hit_forever(c) == c.full

\* @st.cache_data(ttl=60): the stored value is served while it is younger
\* than ttl.
cache_hit(c) == c.full /\ c.age < TTL

\* What st.cache_data stores for a call that returned v: any returned
\* value, the (None, message) of a failure included.
cache_store(v) == [full |-> TRUE, val |-> v, age |-> 0]

\* lines 9-23 and 29: the client is created once per process; creating it
\* raises when the credential is missing, and then nothing is stored.
\* lines 31-55: the body runs only on a miss.
load_data(p, credOK, sh) ==
    IF cache_hit(p.cache)
      THEN [p EXCEPT !.called = TRUE, !.val = p.cache.val]
    ELSE IF ~p.client /\ ~credOK
      THEN [p EXCEPT !.called = TRUE, !.raised = TRUE]
    ELSE LET v == load_body(sh)
         IN  [p EXCEPT !.called = TRUE, !.client = TRUE, !.fetched = TRUE,
                       !.val = v, !.cache = cache_store(v)]

\* The script from line 71 to line 102; st.rerun() ends the pass.
script(s, refresh_btn, auto, credOK, sh) ==
    LET p1 == init_last_update(Begin, s)
        p2 == manual_refresh(p1, s, refresh_btn)
        p3 == IF p2.rerun THEN p2 ELSE auto_refresh_check(p2, s, auto)
    IN  IF p3.rerun THEN p3 ELSE load_data(p3, credOK, sh)

\* How the pass ended: "rerun" st.rerun(), "raised" an exception left
\* load_data(), "stopped" st.error + st.stop(), "shown" the page was rendered.
Outcome(p) ==
    IF p.rerun THEN "rerun"
    ELSE IF p.raised THEN "raised"
    ELSE IF p.val.isNone THEN "stopped"
    ELSE "shown"

Render(s, refresh_btn, auto) ==
    \E credOK \in BOOLEAN, sh \in RemoteSheets :
        LET p == script(s, refresh_btn, auto, credOK, sh)
        IN  /\ cache' = p.cache
            /\ client' = p.client
            /\ elapsed' = p.elapsed
            /\ auto_refresh' = [auto_refresh EXCEPT ![s] = auto]
            /\ rerun' = [rerun EXCEPT ![s] = p.rerun]
            /\ last' = [session |-> s, btn |-> refresh_btn,
                        afterRerun |-> rerun[s], fired |-> p.fired,
                        called |-> p.called, fetched |-> p.fetched,
                        val |-> p.val, outcome |-> Outcome(p)]
            /\ UNCHANGED viewVars

\* The user opens the page, presses the button, toggles the checkbox or
\* changes another widget: the script runs with the widgets' values.  The
\* first pass of a session sees the widgets' defaults.
UserPass(s) ==
    \E refresh_btn \in BOOLEAN, auto \in BOOLEAN :
        /\ elapsed[s] = Unset => ~refresh_btn /\ ~auto
        /\ Render(s, refresh_btn, auto)

\* The pass st.rerun() asked for: no button press, the checkbox as it was.
RerunPass(s) ==
    /\ rerun[s]
    /\ Render(s, FALSE, auto_refresh[s])

\* Any pass of session s.
Pass(s) == UserPass(s) \/ RerunPass(s)

\* One second passes between passes.
Tick ==
    LET p == Elapse([cache |-> cache, elapsed |-> elapsed], 1)
    IN  /\ cache' = p.cache
        /\ elapsed' = p.elapsed
        /\ UNCHANGED <<client, auto_refresh, rerun, last, viewVars>>

NoPass ==
    [session |-> 0, btn |-> FALSE, afterRerun |-> FALSE, fired |-> {},
     called |-> FALSE,
     fetched |-> FALSE, val |-> NoValue, outcome |-> "none"]

IdleSheet == [status |-> "notfound", hasDate |-> FALSE, rows |-> <<>>]

RefreshInit ==
    /\ cache = NoEntry
    /\ client = FALSE
    /\ elapsed = [s \in Sessions |-> Unset]
    /\ auto_refresh = [s \in Sessions |-> FALSE]
    /\ rerun = [s \in Sessions |-> FALSE]
    /\ last = NoPass

ViewIdle ==
    /\ stage = "idle"
    /\ sheet = IdleSheet
    /\ selected_date = 1
    /\ keyword = <<>>
    /\ df = NoValue
    /\ filtered_df = <<>>
    /\ keyword_df = <<>>

Init == RefreshInit /\ ViewIdle

Next ==
    \/ Tick
    \/ \E s \in Single : UserPass(s)
    \/ \E s \in Single : RerunPass(s)

Spec == Init /\ [][Next]_vars

\* The refresh model with fairness: a pass that st.rerun() asked for is run
\* by the Streamlit runtime, and time passes.  Nothing makes the user act.
FairSpec ==
    /\ Spec
    /\ WF_vars(Tick)
    /\ \A s \in Single : WF_vars(RerunPass(s))

----------------------------------------------------------------------------
(* Two sessions of the same process.  The passes of the two sessions      *)
(* interleave; of the clock, only the time.sleep(1) of a manual refresh   *)
(* is kept.                                                                *)

NextMulti ==
    \/ \E s \in Sessions : UserPass(s)
    \/ \E s \in Sessions : RerunPass(s)

MultiSpec == Init /\ [][NextMulti]_vars

----------------------------------------------------------------------------
(* The load and the filters of one pass, over every sheet, date and       *)
(* keyword within the bounds.                                              *)

ViewInit ==
    /\ RefreshInit
    /\ stage = "start"
    /\ sheet \in Sheets
    /\ selected_date \in Days
    /\ keyword \in Keywords
    /\ df = NoValue
    /\ filtered_df = <<>>
    /\ keyword_df = <<>>

\* line 95 on a cache miss, then lines 98-102
LoadStep ==
    /\ stage = "start"
    /\ df' = load_body(sheet)
    /\ stage' = IF df'.isNone THEN "stopped" ELSE "loaded"
    /\ UNCHANGED <<refreshVars, sheet, selected_date, keyword, filtered_df, keyword_df>>

\* lines 105-107 and 131-133; keyword_df exists only for a non-empty keyword
FilterStep ==
    /\ stage = "loaded"
    /\ filtered_df' = date_filter(df.df, selected_date)
    /\ keyword_df' = IF keyword # <<>>
                       THEN keyword_filter(filtered_df', keyword)
                       ELSE <<>>
    /\ stage' = "rendered"
    /\ UNCHANGED <<refreshVars, sheet, selected_date, keyword, df>>

ViewNext == LoadStep \/ FilterStep

ViewSpec == ViewInit /\ [][ViewNext]_vars

----------------------------------------------------------------------------
(* Claims about the freshness cache and the refresh logic *)

Served(l) == l.outcome \in {"shown", "stopped"}

\* C1: a load_data() call that finds an entry younger than the 60-second
\* ttl, with no clear since it was stored, issues no fetch and returns the
\* entry's value, so the call that stored it and this one issue one fetch
\* in total; a call that finds the entry older than the ttl, or finds no
\* entry (after a clear), serves a value only after fetching it in that call.
C1_OneFetchPerWindow ==
    [][\A s \in Single :
        (Pass(s) /\ last'.called) =>
            /\ (cache.full /\ cache.age < TTL) =>
                   (~last'.fetched /\ last'.val = cache.val /\ cache' = cache)
            /\ ((~cache.full \/ cache.age > TTL) /\ Served(last')) =>
                   (last'.fetched /\ cache'.full /\ cache'.age = 0
                    /\ cache'.val = last'.val)]_vars

\* A pass was served the memoized value some seconds after it was fetched.
C1_Witness ==
    /\ last.called /\ ~last.fetched /\ Served(last)
    /\ cache.full /\ cache.age > 0 /\ cache.age < TTL

\* C2: a failed fetch leaves nothing in the cache.
C2_NoFailureCached == cache.full => ~cache.val.isNone

\* C3: in a pass with the checkbox disabled and the button not pressed,
\* whatever time has passed since last_update, no refresh transition fires,
\* the cache is not cleared and last_update keeps its value.
C3_NoRefreshWhenDisabled ==
    [][\A s \in Single :
        (Pass(s) /\ ~last'.btn /\ ~auto_refresh'[s] /\ elapsed[s] # Unset) =>
            /\ last'.fired = {}
            /\ elapsed'[s] = elapsed[s]
            /\ cache.full => cache'.full]_vars

\* More than 30 seconds after last_update, with the checkbox disabled, a
\* pass without a button press went on to fetch.
C3_Witness ==
    /\ last.session = 1 /\ ~last.btn /\ ~auto_refresh[1]
    /\ elapsed[1] > AutoInterval
    /\ last.fetched /\ cache.full /\ cache.age = 0

\* C4: a pass with the checkbox enabled, no button press and more than 30
\* seconds since last_update fires the automatic transition; when it fires,
\* the cache is empty afterwards, last_update is now and a rerun is
\* requested; and the pass after it serves a value only by fetching it.
C4_AutoRefreshForcesFetch ==
    [][\A s \in Single :
        Pass(s) =>
            /\ (~last'.btn /\ auto_refresh'[s] /\ elapsed[s] > AutoInterval) =>
                   "auto" \in last'.fired
            /\ "auto" \in last'.fired =>
                   (~cache'.full /\ elapsed'[s] = 0 /\ rerun'[s])
            /\ ("auto" \in last.fired /\ last.session = s /\ Served(last')) =>
                   last'.fetched]_vars

\* The automatic transition has just fired.
C4_Witness ==
    /\ last.fired = {"auto"} /\ rerun[1] /\ auto_refresh[1]
    /\ ~cache.full /\ elapsed[1] = 0

\* C5: no exception leaves load_data(): every pass that calls it gets a
\* (df, message) value and ends shown or stopped.
C5_NoExceptionEscapes == last.called => Served(last)

\* C8: a refresh in one session leaves in place the table that was just
\* served to another session.
C8_SessionsIsolated ==
    [][\A s \in Sessions :
        (Pass(s) /\ last'.fired # {} /\ last.session \in Sessions \ {s}
           /\ last.outcome = "shown" /\ cache.full) =>
            (cache'.full /\ cache'.val = cache.val)]_vars

\* C9: once more than 30 seconds have passed since last_update with the
\* checkbox enabled, a refresh eventually happens, unless the checkbox is
\* disabled first.
C9_RefreshEvery30s ==
    \A s \in Single :
        (auto_refresh[s] /\ elapsed[s] > AutoInterval /\ last.fired = {})
            ~> (last.fired # {} \/ ~auto_refresh[s])

\* C10: a pass fires at most one transition; a button press fires the
\* manual one, requests a rerun and ends the pass before load_data(); a
\* transition leaves last_update at most the sleep old; and the pass after
\* a requested rerun, started less than 30 seconds after last_update with
\* no button press, fires nothing, calls load_data() and requests no rerun.
C10_RerunChainEnds ==
    [][\A s \in Single :
        Pass(s) =>
            /\ Cardinality(last'.fired) <= 1
            /\ last'.btn => (last'.fired = {"manual"} /\ ~last'.called /\ rerun'[s])
            /\ last'.fired # {} => (elapsed'[s] <= SleepSecs /\ ~last'.called)
            /\ (rerun[s] /\ elapsed[s] # Unset /\ elapsed[s] < AutoInterval
                  /\ ~last'.btn) =>
                   (last'.fired = {} /\ last'.called /\ ~rerun'[s])]_vars

\* The pass a refresh asked for has run and loaded.
C10_Witness ==
    /\ last.afterRerun /\ ~last.btn /\ last.fired = {} /\ last.called
    /\ ~rerun[1]

----------------------------------------------------------------------------
(* Claims about the load and the filters *)

IsDateText(c) == \E n \in Days : DayTexts[n] = c

\* C6: an empty sheet gives the no-data failure, a sheet without the date
\* column the no-date-column failure, a sheet with a date cell that is not
\* a date the date-format failure, a missing spreadsheet the not-found
\* failure, and a table is returned only when every row's date is a date.
C6_Classified ==
    stage # "start" =>
        /\ sheet.status = "notfound" => (df.isNone /\ df.msg = MsgNotFound)
        /\ (sheet.status = "ok" /\ sheet.rows = <<>>) =>
               (df.isNone /\ df.msg = MsgEmpty)
        /\ (sheet.status = "ok" /\ sheet.rows # <<>> /\ ~sheet.hasDate) =>
               (df.isNone /\ df.msg = MsgNoDate)
        /\ (sheet.status = "ok" /\ sheet.rows # <<>> /\ sheet.hasDate
              /\ \E i \in 1..Len(sheet.rows) : ~IsDateText(sheet.rows[i].date)) =>
               (df.isNone /\ df.msg = MsgBadDate)
        /\ ~df.isNone =>
               (sheet.rows # <<>>
                /\ \A i \in 1..Len(sheet.rows) : IsDateText(sheet.rows[i].date))

\* Literal, case-insensitive substring.
HasSubstring(text, k) ==
    \E i \in 0..(Len(text) - Len(k)) :
        \A j \in 1..Len(k) : Lower(k[j]) = Lower(text[i + j])

\* u is t with some rows left out, order kept.
IsSubsequence(u, t) ==
    \E f \in [1..Len(u) -> 1..Len(t)] :
        /\ \A i \in 1..Len(u) : u[i] = t[f[i]]
        /\ \A i, j \in 1..Len(u) : i < j => f[i] < f[j]

\* C7: the date view has as many rows as the table has rows dated on or
\* after the selected date, all of them so dated; every row of the keyword
\* view has the keyword as a case-insensitive substring of its summary, and
\* the keyword view is a subsequence of the date view.
C7_FilterContract ==
    stage = "rendered" =>
        /\ Len(filtered_df) =
               Cardinality({i \in 1..Len(df.df) : df.df[i].date >= selected_date})
        /\ \A i \in 1..Len(filtered_df) : filtered_df[i].date >= selected_date
        /\ IsSubsequence(filtered_df, df.df)
        /\ keyword # <<>> =>
               /\ \A i \in 1..Len(keyword_df) :
                      HasSubstring(keyword_df[i].summary, keyword)
               /\ IsSubsequence(keyword_df, filtered_df)

====
